---- MODULE Spec2Model ----
(***************************************************************************)
(* Quadtree of circles (Quadtree/quadtree/quad.py).                        *)
(*                                                                         *)
(* A circle is a Python list [x, y, radius, _, MULTIPLE].  The tree stores *)
(* references to the caller's lists, and subdivide() writes the MULTIPLE   *)
(* element through the reference, so a circle is modelled as an object     *)
(* identity (a number) with a fixed geometry Geom(id) and a mutable flag   *)
(* flag[id].  List equality (used by QuadTree.remove) compares geometry    *)
(* and flag.  A node is named by its path from the root, a sequence of     *)
(* quadrant numbers; a child that is None is a path outside DOMAIN nodes.  *)
(*                                                                         *)
(* collide() is a generator: the call runs nothing, and each next() runs   *)
(* the traversal up to the following yield, on the tree as it is then.     *)
(* gen is the generator the caller holds, suspended between two steps.     *)
(***************************************************************************)
EXTENDS Integers, Sequences, FiniteSets, TLC

VARIABLES region, nodes, flag, pool, added, last, gen

vars == <<region, nodes, flag, pool, added, last, gen>>

(***************************************************************************)
(* Bounds of the model.                                                    *)
(***************************************************************************)
\* most circles held by the tree at one time
MaxCircles == 6
\* iterations of the loop of QuadTree.remove that are followed
MaxIter == 10

(***************************************************************************)
(* Program constants.                                                      *)
(***************************************************************************)
NE == 0
NW == 1
SW == 2
SE == 3
\* "subdividing once > 4"
Threshold == 4

(***************************************************************************)
(* The caller's circles.  1..8 are used over the region (0,0)-(7,7), which *)
(* the constructor widens to [0,8) x [0,8) (8 only where there is no       *)
(* remove, 9 only where the generator of collide is stepped); 11..17 have radius 2 and are used over (0,0)-(100,100),        *)
(* widened to [0,128) x [0,128); 21.. are only ever query circles; 31..37  *)
(* lie on or next to (0,0) and are used over regions around that point.    *)
(***************************************************************************)
Circle(x, y, r) == [x |-> x, y |-> y, r |-> r]

SmallPool == 1..7
OrderPool == 1..8
ScenarioPool == 11..17
QueryOnly == {21, 22}
PointPool == 31..37
NodePool == 1..6
IterPool == {1, 2, 3, 4, 9}
GenQueries == {1, 22}
AllIds == OrderPool \cup IterPool \cup ScenarioPool \cup QueryOnly \cup PointPool

Geom(id) ==
  CASE id = 1 -> Circle(1, 1, 0)       \* a point of SW
    [] id = 2 -> Circle(1, 1, 0)       \* same geometry as 1, another object
    [] id = 3 -> Circle(3, 3, 0)       \* a point of SW
    [] id = 4 -> Circle(4, 4, 1)       \* on the root's origin: all four quadrants
    [] id = 5 -> Circle(-1, 1, 2)      \* partly outside the region, touches SW only
    [] id = 6 -> Circle(2, 1, 1)       \* inside SW
    [] id = 7 -> Circle(20, 20, 1)     \* outside the region
    [] id = 8 -> Circle(6, 6, 1)        \* inside NE
    [] id = 9 -> Circle(4, 4, 0)       \* the root's origin itself: all four quadrants
    [] id = 11 -> Circle(10, 10, 2)
    [] id = 12 -> Circle(20, 20, 2)
    [] id = 13 -> Circle(12, 20, 2)
    [] id = 14 -> Circle(40, 40, 2)
    [] id = 15 -> Circle(50, 10, 2)
    [] id = 16 -> Circle(10, 50, 2)
    [] id = 17 -> Circle(100, 100, 2)  \* inside NE of [0,128)
    [] id = 21 -> Circle(-4, 1, 1)     \* left of both regions, touches circle 5
    [] id = 22 -> Circle(64, 64, 128)  \* covers both regions
    [] id \in 31..35 -> Circle(0, 0, 0) \* five objects, one point
    [] id = 36 -> Circle(0, 0, 1)
    [] id = 37 -> Circle(1, 0, 0)

(***************************************************************************)
(* adk.region.Region: four bounds, closed on min and open on max.          *)
(***************************************************************************)
Region(xmin, ymin, xmax, ymax) ==
  [x_min |-> xmin, y_min |-> ymin, x_max |-> xmax, y_max |-> ymax]

Abs(n) == IF n < 0 THEN -n ELSE n

RECURSIVE Pow2(_)
Pow2(k) == IF k = 0 THEN 1 ELSE 2 * Pow2(k - 1)

(***************************************************************************)
(* Wide integers.  Python's integers are unbounded and the bounds of a     *)
(* region may be of any size, so a bound handed to the constructor is a    *)
(* sign sg in {-1, 0, 1} and a magnitude hi * Limb + lo with 0 <= lo <     *)
(* Limb; zero is sg = hi = lo = 0.  The form is unique, so two wide        *)
(* integers are the same number exactly when the records are equal.        *)
(* Magnitudes go up to 2^53, the range in which the conversion of an       *)
(* integer to a double is exact.                                           *)
(***************************************************************************)
Limb == Pow2(27)

Wide(n) ==
  [sg |-> IF n < 0 THEN -1 ELSE IF n = 0 THEN 0 ELSE 1,
   hi |-> Abs(n) \div Limb, lo |-> Abs(n) % Limb]

\* the integer of a wide integer below 2^31 in magnitude
Narrow(w) == w.sg * (w.hi * Limb + w.lo)

WNeg(w) == [w EXCEPT !.sg = -@]

\* 2**k
WPow2(k) ==
  IF k < 27 THEN [sg |-> 1, hi |-> 0, lo |-> Pow2(k)]
  ELSE [sg |-> 1, hi |-> Pow2(k - 27), lo |-> 0]

\* 2**k + d for 28 <= k and -Limb < d < Limb
WNear(k, d) ==
  IF d < 0 THEN [sg |-> 1, hi |-> Pow2(k - 27) - 1, lo |-> Limb + d]
  ELSE [sg |-> 1, hi |-> Pow2(k - 27), lo |-> d]

MagLt(a, b) == a.hi < b.hi \/ (a.hi = b.hi /\ a.lo < b.lo)

WLt(a, b) ==
  IF a.sg # b.sg THEN a.sg < b.sg
  ELSE IF a.sg = 1 THEN MagLt(a, b)
  ELSE IF a.sg = -1 THEN MagLt(b, a)
  ELSE FALSE

WLe(a, b) == a = b \/ WLt(a, b)

WMin(a, b) == IF WLt(b, a) THEN b ELSE a

WMax(a, b) == IF WLt(a, b) THEN b ELSE a

WideRegion(r) == Region(Wide(r.x_min), Wide(r.y_min), Wide(r.x_max), Wide(r.y_max))

NarrowRegion(r) ==
  Region(Narrow(r.x_min), Narrow(r.y_min), Narrow(r.x_max), Narrow(r.y_max))

\* the number of halvings that bring n >= 1 to 1: the e with 2^e <= n < 2^(e+1)
RECURSIVE Halvings(_)
Halvings(n) == IF n < 2 THEN 0 ELSE 1 + Halvings(n \div 2)

\* the e with 2^e <= |w| < 2^(e+1), for w # 0
Exponent(w) == IF w.hi > 0 THEN 27 + Halvings(w.hi) ELSE Halvings(w.lo)

\* |w| - 2^e for e = Exponent(w), or Limb when it is Limb or more
Above(w, e) ==
  IF e < 27 THEN w.lo - Pow2(e)
  ELSE IF w.hi = Pow2(e - 27) THEN w.lo
  ELSE Limb

\* 2^(e+1) - |w| for e = Exponent(w), or Limb when it is Limb or more
Below(w, e) ==
  IF e < 27 THEN Pow2(e + 1) - w.lo
  ELSE IF w.hi = Pow2(e - 26) - 1 THEN Limb - w.lo
  ELSE Limb

\* The double nearest to log2(2^k + d) or log2(2^k - d), d >= 1, is k itself.
\* The logarithm is off k by d / (2^k * ln 2), and the doubles next to k,
\* 32 < k <= 64, are 2^-47 apart, so it is rounded to k when
\* d < 2^(k-48) * ln 2 (ln 2 = 0.693147...): never for k <= 48, for d = 1 at
\* k = 49, for d <= 2 at 50, <= 5 at 51, <= 11 at 52, <= 22 at 53.
RoundsTo(k, d) ==
  /\ k >= 49
  /\ d < Pow2(k - 47)
  /\ d * 1000000 < Pow2(k - 48) * 693147

\* math.log2(n) of a wide integer n >= 1, as the double it returns: the
\* integer k when the double is k, and k with frac = 1 when the double lies
\* strictly between k and k + 1
math_log2(w) ==
  LET e == Exponent(w)
  IN  IF Above(w, e) = 0 \/ RoundsTo(e, Above(w, e)) THEN [k |-> e, frac |-> 0]
      ELSE IF RoundsTo(e + 1, Below(w, e)) THEN [k |-> e + 1, frac |-> 0]
      ELSE [k |-> e, frac |-> 1]

math_floor(x) == x.k

math_ceil(x) == x.k + x.frac

smaller2k(n) ==
  IF n.sg = 0 THEN Wide(0)
  ELSE IF n.sg < 0 THEN WNeg(WPow2(math_ceil(math_log2(WNeg(n)))))
  ELSE WPow2(math_floor(math_log2(n)))

larger2k(n) ==
  IF n.sg = 0 THEN Wide(0)
  ELSE IF n.sg < 0 THEN WNeg(WPow2(math_floor(math_log2(WNeg(n)))))
  ELSE WPow2(math_ceil(math_log2(n)))

\* QuadTree.__init__: the canonical region of the caller's region, both with
\* wide bounds
Canonical(r) ==
  LET xmin2k == smaller2k(r.x_min)
      ymin2k == smaller2k(r.y_min)
      xmax2k == larger2k(r.x_max)
      ymax2k == larger2k(r.y_max)
      lo == WMin(xmin2k, ymin2k)
      hi == WMax(xmax2k, ymax2k)
  IN  Region(lo, lo, hi, hi)

completelyContains(r, circle) ==
  IF circle.x - circle.r < r.x_max THEN FALSE
  ELSE IF circle.x + circle.r >= r.x_max THEN FALSE
  ELSE IF circle.y - circle.r < r.y_min THEN FALSE
  ELSE IF circle.y + circle.r >= r.y_max THEN FALSE
  ELSE TRUE

intersectsCircle(r, circle) ==
  LET rectOriginX == (r.x_min + r.x_max) \div 2
      rectOriginY == (r.y_min + r.y_max) \div 2
      halfSizeX == (r.x_max - r.x_min) \div 2
      halfSizeY == (r.y_max - r.y_min) \div 2
      distCenterX == Abs(circle.x - rectOriginX)
      distCenterY == Abs(circle.y - rectOriginY)
      cornerX == distCenterX - halfSizeX
      cornerY == distCenterY - halfSizeY
  IN  IF distCenterX > circle.r + halfSizeX \/ distCenterY > circle.r + halfSizeY
        THEN FALSE
      ELSE IF distCenterX <= halfSizeX \/ distCenterY <= halfSizeY
        THEN TRUE
      ELSE cornerX * cornerX + cornerY * cornerY <= circle.r * circle.r

defaultCollision(c1, c2) ==
  LET centerDistance == (c1.x - c2.x) * (c1.x - c2.x) + (c1.y - c2.y) * (c1.y - c2.y)
      sumSquared == (c1.r + c2.r) * (c1.r + c2.r)
  IN  IF centerDistance > sumSquared THEN FALSE ELSE TRUE

\* QuadTree.collision, the class attribute holding the active strategy
collision(c1, c2) == defaultCollision(c1, c2)

(***************************************************************************)
(* QuadNode.  S is the heap the methods work on: [nodes, flag].            *)
(***************************************************************************)
\* QuadNode.__init__ (origin is derived from the region, which never changes)
QuadNode(r) == [region |-> r, circles |-> <<>>]

\* the origin with the half side rounded up
origin_Ceil(r) ==
  [x |-> r.x_min + (r.x_max - r.x_min + 1) \div 2,
   y |-> r.y_min + (r.y_max - r.y_min + 1) \div 2]

origin(r) ==
  [x |-> r.x_min + (r.x_max - r.x_min) \div 2,
   y |-> r.y_min + (r.y_max - r.y_min) \div 2]

\* self.children[NE] != None
HasChildren(ns, p) == Append(p, NE) \in DOMAIN ns

\* the regions subdivide() gives the four children
childRegion(r, q) ==
  LET o == origin(r)
  IN  CASE q = NE -> Region(o.x, o.y, r.x_max, r.y_max)
        [] q = NW -> Region(r.x_min, o.y, o.x, r.y_max)
        [] q = SW -> Region(r.x_min, r.y_min, o.x, o.y)
        [] q = SE -> Region(o.x, r.y_min, r.x_max, o.y)

\* QuadNode.quadrants, for a node that has children
quadrants(ns, p, circle) ==
  LET hit(q) == IF intersectsCircle(ns[Append(p, q)].region, circle) THEN <<q>> ELSE <<>>
  IN  hit(NE) \o hit(NW) \o hit(SW) \o hit(SE)

RECURSIVE QuadNode_add(_, _, _)
RECURSIVE subdivide(_, _)
RECURSIVE redistribute(_, _, _, _)
RECURSIVE removeLoop(_, _, _, _)
RECURSIVE redistribute_NoPush(_, _, _, _)
RECURSIVE redistribute_KeepAll(_, _, _, _)

\* QuadNode.add with the threshold test off by one (> 5)
QuadNode_add_Over5(S, p, circle) ==
  IF ~intersectsCircle(S.nodes[p].region, Geom(circle))
    THEN [S |-> S, ret |-> FALSE]
  ELSE IF ~HasChildren(S.nodes, p)
    THEN LET S1 == [S EXCEPT !.nodes[p].circles = Append(@, circle)]
         IN  [S |-> IF Len(S1.nodes[p].circles) > Threshold + 1 THEN subdivide(S1, p) ELSE S1,
              ret |-> TRUE]
  ELSE LET quads == quadrants(S.nodes, p, Geom(circle))
       IN  IF Len(quads) = 1
             THEN QuadNode_add(S, Append(p, quads[1]), circle)
             ELSE [S |-> [S EXCEPT !.nodes[p].circles = Append(@, circle)], ret |-> TRUE]

\* QuadNode.add without the test that the circle intersects the node's region
QuadNode_add_NoCheck(S, p, circle) ==
  IF ~HasChildren(S.nodes, p)
    THEN LET S1 == [S EXCEPT !.nodes[p].circles = Append(@, circle)]
         IN  [S |-> IF Len(S1.nodes[p].circles) > Threshold THEN subdivide(S1, p) ELSE S1,
              ret |-> TRUE]
  ELSE LET quads == quadrants(S.nodes, p, Geom(circle))
       IN  IF Len(quads) = 1
             THEN QuadNode_add(S, Append(p, quads[1]), circle)
             ELSE [S |-> [S EXCEPT !.nodes[p].circles = Append(@, circle)], ret |-> TRUE]

\* QuadNode.add that hands a circle of several quadrants down into the first
QuadNode_add_PushFirst(S, p, circle) ==
  IF ~intersectsCircle(S.nodes[p].region, Geom(circle))
    THEN [S |-> S, ret |-> FALSE]
  ELSE IF ~HasChildren(S.nodes, p)
    THEN LET S1 == [S EXCEPT !.nodes[p].circles = Append(@, circle)]
         IN  [S |-> IF Len(S1.nodes[p].circles) > Threshold THEN subdivide(S1, p) ELSE S1,
              ret |-> TRUE]
  ELSE LET quads == quadrants(S.nodes, p, Geom(circle))
       IN  IF Len(quads) >= 1
             THEN QuadNode_add(S, Append(p, quads[1]), circle)
             ELSE [S |-> [S EXCEPT !.nodes[p].circles = Append(@, circle)], ret |-> TRUE]

\* QuadNode.add, from the node at path p: the heap afterwards and the result
QuadNode_add(S, p, circle) ==
  IF ~intersectsCircle(S.nodes[p].region, Geom(circle))
    THEN [S |-> S, ret |-> FALSE]
  ELSE IF ~HasChildren(S.nodes, p)
    THEN LET S1 == [S EXCEPT !.nodes[p].circles = Append(@, circle)]
         IN  [S |-> IF Len(S1.nodes[p].circles) > Threshold THEN subdivide(S1, p) ELSE S1,
              ret |-> TRUE]
  ELSE LET quads == quadrants(S.nodes, p, Geom(circle))
       IN  IF Len(quads) = 1
             THEN QuadNode_add(S, Append(p, quads[1]), circle)
             ELSE [S |-> [S EXCEPT !.nodes[p].circles = Append(@, circle)], ret |-> TRUE]

\* the loop of subdivide() without the add to the child: a circle of a single
\* quadrant is taken off the node and put nowhere
redistribute_NoPush(S, p, update, i) ==
  IF i > Len(update) THEN S
  ELSE LET circle == update[i]
           quads == quadrants(S.nodes, p, Geom(circle))
       IN  IF Len(quads) = 1
             THEN redistribute_NoPush([S EXCEPT !.flag[circle] = FALSE], p, update, i + 1)
             ELSE redistribute_NoPush([S EXCEPT !.nodes[p].circles = Append(@, circle),
                                                !.flag[circle] = TRUE], p, update, i + 1)

\* the loop of subdivide() that puts every circle back into the node's list
redistribute_KeepAll(S, p, update, i) ==
  IF i > Len(update) THEN S
  ELSE LET circle == update[i]
       IN  redistribute_KeepAll([S EXCEPT !.nodes[p].circles = Append(@, circle),
                                          !.flag[circle] = TRUE], p, update, i + 1)

\* the loop of subdivide() over update, from its i-th element on
redistribute(S, p, update, i) ==
  IF i > Len(update) THEN S
  ELSE LET circle == update[i]
           quads == quadrants(S.nodes, p, Geom(circle))
       IN  IF Len(quads) = 1
             THEN LET S2 == QuadNode_add(S, Append(p, quads[1]), circle).S
                  IN  redistribute([S2 EXCEPT !.flag[circle] = FALSE], p, update, i + 1)
             ELSE redistribute([S EXCEPT !.nodes[p].circles = Append(@, circle),
                                         !.flag[circle] = TRUE], p, update, i + 1)

\* QuadNode.subdivide
subdivide(S, p) ==
  LET r == S.nodes[p].region
      update == S.nodes[p].circles
      kids == [c \in {Append(p, q) : q \in {NE, NW, SW, SE}} |->
                 QuadNode(childRegion(r, c[Len(c)]))]
      S1 == [S EXCEPT !.nodes = [@ EXCEPT ![p].circles = <<>>] @@ kids]
  IN  redistribute(S1, p, update, 1)

(***************************************************************************)
(* The generator of QuadNode.collide, suspended.  st is "new" before the   *)
(* first next(), "run" at a yield, "done" once exhausted.  At a yield the  *)
(* innermost frame is in "for c in self.circles" of the node p, about to   *)
(* read index idx of the list it iterates: the node's list as it is now,   *)
(* or, when subdivide() has since given the node a new list, the old list  *)
(* snap.  stack holds the frames of the ancestors, each inside              *)
(* "for q in self.quadrants(circle)" at the k-th of quads.                 *)
(***************************************************************************)
NoGen ==
  [st |-> "none", q |-> Circle(0, 0, 0), stack |-> <<>>, p |-> <<>>, idx |-> 0,
   frozen |-> FALSE, snap |-> <<>>]

DoneGen == [NoGen EXCEPT !.st = "done"]

RECURSIVE genScan(_, _)
RECURSIVE genEnter(_, _, _)
RECURSIVE genFinish(_, _)
RECURSIVE genDrain(_, _)

\* the loop over the node's circles without the children after it
genScan_NoDescent(ns, g) ==
  LET lst == IF g.frozen THEN g.snap ELSE ns[g.p].circles
  IN  IF g.idx <= Len(lst)
        THEN IF collision(Geom(lst[g.idx]), g.q)
               THEN [gen |-> [g EXCEPT !.st = "run", !.idx = @ + 1], out |-> <<lst[g.idx]>>]
               ELSE genScan(ns, [g EXCEPT !.idx = @ + 1])
      ELSE genFinish(ns, g)

\* the loop over the node's circles from index g.idx on, then the children
genScan(ns, g) ==
  LET lst == IF g.frozen THEN g.snap ELSE ns[g.p].circles
  IN  IF g.idx <= Len(lst)
        THEN IF collision(Geom(lst[g.idx]), g.q)
               THEN [gen |-> [g EXCEPT !.st = "run", !.idx = @ + 1], out |-> <<lst[g.idx]>>]
               ELSE genScan(ns, [g EXCEPT !.idx = @ + 1])
      ELSE IF ~HasChildren(ns, g.p) THEN genFinish(ns, g)
      ELSE LET quads == quadrants(ns, g.p, g.q)
           IN  IF quads = <<>> THEN genFinish(ns, g)
               ELSE genEnter(ns, [g EXCEPT !.stack = Append(@, [p |-> g.p, quads |-> quads,
                                                                 k |-> 1])],
                             Append(g.p, quads[1]))

\* the body of collide() of the node p starts
genEnter(ns, g, p) ==
  IF ~intersectsCircle(ns[p].region, g.q) THEN genFinish(ns, g)
  ELSE genScan(ns, [g EXCEPT !.p = p, !.idx = 1, !.frozen = FALSE, !.snap = <<>>])

\* the innermost generator is exhausted: its parent goes on to the next quadrant
genFinish(ns, g) ==
  IF g.stack = <<>> THEN [gen |-> DoneGen, out |-> <<>>]
  ELSE LET f == g.stack[Len(g.stack)]
       IN  IF f.k + 1 > Len(f.quads)
             THEN genFinish(ns, [g EXCEPT !.stack = SubSeq(@, 1, Len(@) - 1)])
             ELSE genEnter(ns, [g EXCEPT !.stack[Len(g.stack)].k = f.k + 1],
                           Append(f.p, f.quads[f.k + 1]))

\* next() of the generator: the generator afterwards and what it yielded, if
\* anything
genNext(ns, g) ==
  IF g.st = "new" THEN genEnter(ns, g, <<>>)
  ELSE IF g.st = "run" THEN genScan(ns, g)
  ELSE [gen |-> g, out |-> <<>>]

\* list(it): every next() up to StopIteration, the tree left alone meanwhile
genDrain(ns, g) ==
  LET r == genNext(ns, g)
  IN  IF r.out = <<>> THEN <<>> ELSE r.out \o genDrain(ns, r.gen)

(***************************************************************************)
(* QuadTree.                                                               *)
(***************************************************************************)
HasRoot(ns) == <<>> \in DOMAIN ns

QuadTree_add(S, circle) ==
  IF ~HasRoot(S.nodes)
    THEN LET S1 == [S EXCEPT !.nodes = (<<>> :> QuadNode(region))]
         IN  [S |-> QuadNode_add(S1, <<>>, circle).S, ret |-> TRUE]
    ELSE QuadNode_add(S, <<>>, circle)

\* QuadTree.collide: iter([]) without a root, else the root's generator, not
\* yet started
QuadTree_collideCall(ns, circle) ==
  IF ~HasRoot(ns) THEN DoneGen ELSE [NoGen EXCEPT !.st = "new", !.q = circle]

\* list(tree.collide(circle)): the call and the draining of its generator
\* with no other call in between
QuadTree_collide(ns, circle) == genDrain(ns, QuadTree_collideCall(ns, circle))

\* list equality of two circles: geometry and MULTIPLE element
CircleEq(fl, c, d) == Geom(c) = Geom(d) /\ fl[c] = fl[d]

\* the first index i with circles[i] == circle, or 0
firstMatch(fl, circles, circle) ==
  LET idx == {i \in DOMAIN circles : CircleEq(fl, circles[i], circle)}
  IN  IF idx = {} THEN 0 ELSE CHOOSE i \in idx : \A j \in idx : i <= j

RemoveAt(s, i) == SubSeq(s, 1, i - 1) \o SubSeq(s, i + 1, Len(s))

\* QuadNode.remove on the node at path p: the first list equal to the circle
\* leaves the node's own list; the children are not looked at
QuadNode_remove(S, p, circle) ==
  LET i == firstMatch(S.flag, S.nodes[p].circles, circle)
  IN  IF i = 0 THEN [S |-> S, ret |-> FALSE]
      ELSE [S |-> [S EXCEPT !.nodes[p].circles = RemoveAt(@, i)], ret |-> TRUE]

\* The while loop of QuadTree.remove with node at path p, iter iterations done.
\* node.quadrants() on a node without children reads .region of None
\* (AttributeError).  An iteration that finds no match leaves node as it is and
\* falls through to the next iteration; the loop is followed for MaxIter
\* iterations.
removeLoop(S, p, circle, iter) ==
  IF iter >= MaxIter
    THEN [S |-> S, ret |-> "running", iters |-> iter]
  ELSE IF ~HasChildren(S.nodes, p)
    THEN [S |-> S, ret |-> "AttributeError", iters |-> iter + 1]
  ELSE LET quads == quadrants(S.nodes, p, Geom(circle))
           i == firstMatch(S.flag, S.nodes[p].circles, circle)
       IN  IF Len(quads) = 1
             THEN removeLoop(S, Append(p, quads[1]), circle, iter + 1)
           ELSE IF i # 0
             THEN [S |-> [S EXCEPT !.nodes[p].circles = RemoveAt(@, i)],
                   ret |-> "True", iters |-> iter + 1]
           ELSE removeLoop(S, p, circle, iter + 1)

QuadTree_remove(S, circle) ==
  IF ~HasRoot(S.nodes)
    THEN [S |-> S, ret |-> "False", iters |-> 0]
    ELSE removeLoop(S, <<>>, circle, 0)

(***************************************************************************)
(* What is stored.                                                         *)
(***************************************************************************)
RECURSIVE SeqSum(_)
SeqSum(s) == IF s = <<>> THEN 0 ELSE Head(s) + SeqSum(Tail(s))

Range(s) == {s[i] : i \in DOMAIN s}

\* occurrences of the object c in the sequence s
CountIn(s, c) == Cardinality({i \in DOMAIN s : s[i] = c})

\* occurrences of the object c in the lists of all nodes
Occurrences(ns, c) ==
  LET paths == DOMAIN ns
      RECURSIVE total(_)
      total(P) == IF P = {} THEN 0
                  ELSE LET p == CHOOSE q \in P : TRUE
                       IN  CountIn(ns[p].circles, c) + total(P \ {p})
  IN  total(paths)

StoredIds(ns) == UNION {Range(ns[p].circles) : p \in DOMAIN ns}

StoredCount(ns) ==
  LET RECURSIVE total(_)
      total(P) == IF P = {} THEN 0
                  ELSE LET p == CHOOSE q \in P : TRUE
                       IN  Len(ns[p].circles) + total(P \ {p})
  IN  total(DOMAIN ns)

(***************************************************************************)
(* The program: a tree over the canonical region of the caller's region,   *)
(* and calls of add, remove and collide with the caller's circles.  The    *)
(* caller passes each list object to add only while the tree does not hold *)
(* it (two objects may have the same geometry).  A call of remove that     *)
(* does not return leaves the program inside it.                           *)
(***************************************************************************)
Bool(b) == IF b THEN "True" ELSE "False"

\* calls of subdivide() between two heaps: each creates four nodes
Splits(before, after) ==
  LET made == Cardinality(DOMAIN after) - Cardinality(DOMAIN before)
  IN  (IF HasRoot(before) THEN made ELSE made - 1) \div 4

Hung == last.ret = "running"

TypeOK ==
  /\ pool \subseteq AllIds
  /\ added \subseteq pool
  /\ flag \in [AllIds -> BOOLEAN]
  /\ last.op \in {"init", "add", "remove", "collide", "completelyContains", "construct",
                  "node.remove", "collide()", "next"}
  /\ gen.st \in {"none", "new", "run", "done"}

\* a tree without a root whose canonical region is reg
InitWith(reg, p) ==
  /\ region = reg
  /\ nodes = <<>>
  /\ flag = [id \in AllIds |-> FALSE]
  /\ pool = p
  /\ added = {}
  /\ last = [op |-> "init", arg |-> 0, ret |-> "None", out |-> <<>>, iters |-> 0,
             splits |-> 0]
  /\ gen = NoGen

\* QuadTree(r) for a region r of small integer bounds
InitOver(r, p) == InitWith(NarrowRegion(Canonical(WideRegion(r))), p)

Init == InitOver(Region(0, 0, 7, 7), SmallPool)

InitScenario == InitOver(Region(0, 0, 100, 100), ScenarioPool)

Add(c) ==
  /\ ~Hung
  /\ c \notin StoredIds(nodes)
  /\ StoredCount(nodes) < MaxCircles
  /\ LET res == QuadTree_add([nodes |-> nodes, flag |-> flag], c)
     IN  /\ nodes' = res.S.nodes
         /\ flag' = res.S.flag
         /\ last' = [op |-> "add", arg |-> c, ret |-> Bool(res.ret), out |-> <<>>,
                     iters |-> 0, splits |-> Splits(nodes, res.S.nodes)]
  /\ added' = added \cup {c}
  \* a suspended "for c in self.circles" keeps the list that subdivide() took
  \* away from the node: what the leaf held plus the circle just appended
  /\ gen' = IF /\ gen.st = "run" /\ ~gen.frozen
               /\ ~HasChildren(nodes, gen.p) /\ HasChildren(nodes', gen.p)
              THEN [gen EXCEPT !.frozen = TRUE, !.snap = Append(nodes[gen.p].circles, c)]
              ELSE gen
  /\ UNCHANGED <<region, pool>>

Remove(c) ==
  /\ ~Hung
  /\ LET res == QuadTree_remove([nodes |-> nodes, flag |-> flag], c)
     IN  /\ nodes' = res.S.nodes
         /\ flag' = res.S.flag
         /\ last' = [op |-> "remove", arg |-> c, ret |-> res.ret, out |-> <<>>,
                     iters |-> res.iters, splits |-> 0]
  /\ UNCHANGED <<region, pool, added, gen>>

Collide(q) ==
  /\ ~Hung
  /\ last' = [op |-> "collide", arg |-> q, ret |-> "None",
              out |-> QuadTree_collide(nodes, Geom(q)), iters |-> 0, splits |-> 0]
  /\ UNCHANGED <<region, nodes, flag, pool, added, gen>>

Next ==
  \/ \E c \in pool : Add(c)
  \/ \E c \in pool : Remove(c)
  \/ \E q \in pool \cup QueryOnly : Collide(q)

Spec == Init /\ [][Next]_vars

NextAdd ==
  \/ \E c \in pool : Add(c)
  \/ \E q \in pool \cup QueryOnly : Collide(q)

InitOrder == InitOver(Region(0, 0, 7, 7), OrderPool)

SpecAdd == InitOrder /\ [][NextAdd]_vars

SpecScenario == InitScenario /\ [][NextAdd]_vars

(***************************************************************************)
(* A node's own remove: the caller reaches a node through tree.root and    *)
(* .children and calls remove on it.                                       *)
(***************************************************************************)
\* node.remove(c) for the node at path p
NodeRemove(p, c) ==
  /\ ~Hung
  /\ p \in DOMAIN nodes
  /\ LET res == QuadNode_remove([nodes |-> nodes, flag |-> flag], p, c)
     IN  /\ nodes' = res.S.nodes
         /\ flag' = res.S.flag
         /\ last' = [op |-> "node.remove", arg |-> c, ret |-> Bool(res.ret), out |-> <<>>,
                     iters |-> 0, splits |-> 0]
  /\ UNCHANGED <<region, pool, added, gen>>

\* it = tree.collide(q)
CollideCall(q) ==
  /\ ~Hung
  /\ gen' = QuadTree_collideCall(nodes, Geom(q))
  /\ last' = [op |-> "collide()", arg |-> q, ret |-> "generator", out |-> <<>>,
              iters |-> 0, splits |-> 0]
  /\ UNCHANGED <<region, nodes, flag, pool, added>>

\* next(it): a circle, or StopIteration
GenNext ==
  /\ ~Hung
  /\ gen.st # "none"
  /\ LET res == genNext(nodes, gen)
     IN  /\ gen' = res.gen
         /\ last' = [op |-> "next", arg |-> 0,
                     ret |-> IF res.out = <<>> THEN "StopIteration" ELSE "None",
                     out |-> res.out, iters |-> 0, splits |-> 0]
  /\ UNCHANGED <<region, nodes, flag, pool, added>>

NextNode ==
  \/ \E c \in pool : Add(c)
  \/ \E c \in pool : Remove(c)
  \/ \E p \in DOMAIN nodes, c \in pool : NodeRemove(p, c)

InitNode == InitOver(Region(0, 0, 7, 7), NodePool)

SpecNode == InitNode /\ [][NextNode]_vars

\* the calls on the tree, with the generator of collide taken one next() at a
\* time and other calls in between; the caller holds one generator, and a new
\* call of collide replaces it
NextIter ==
  \/ \E c \in pool : Add(c)
  \/ \E c \in pool : Remove(c)
  \/ \E q \in GenQueries : CollideCall(q)
  \/ GenNext

InitIter == InitOver(Region(0, 0, 7, 7), IterPool)

SpecIter == InitIter /\ [][NextIter]_vars

(***************************************************************************)
(* completelyContains is called by nothing in quad.py; it is applied here  *)
(* to circles of a small box around two canonical regions.                 *)
(***************************************************************************)
Coords == -5..9
Radii == 0..2

InitGeom ==
  \E r \in {Region(0, 0, 7, 7), Region(-3, -3, 3, 3)} : InitOver(r, {})

Contains(circle) ==
  /\ last' = [op |-> "completelyContains", arg |-> circle,
              ret |-> Bool(completelyContains(region, circle)), out |-> <<>>,
              iters |-> 0, splits |-> 0]
  /\ UNCHANGED <<region, nodes, flag, pool, added, gen>>

NextGeom == \E x \in Coords, y \in Coords, r \in Radii : Contains(Circle(x, y, r))

SpecGeom == InitGeom /\ [][NextGeom]_vars

(***************************************************************************)
(* The constructor alone: QuadTree(region) for the caller's regions with   *)
(* integer bounds, well formed or not: small ones, and ones at and next to *)
(* 2^49 and below 2^52, where the double of math.log2 is a whole number    *)
(* though the bound is no power of two.  The bounds and the canonical      *)
(* region are wide integers.  A run is one call; it makes a tree without a *)
(* root, and nothing in __init__ raises.                                   *)
(***************************************************************************)
InputCoords ==
  {Wide(n) : n \in {-100, -9, -8, -5, -3, -1, 0, 1, 2, 3, 5, 7, 8, 100}}
    \cup {WNear(49, -1), WNear(49, 0), WNear(49, 1), WNear(52, -11),
          WNeg(WNear(49, -1)), WNeg(WNear(49, 1))}

Construct(r) ==
  /\ region' = Canonical(r)
  /\ nodes' = <<>>
  /\ last' = [op |-> "construct", arg |-> r, ret |-> "None", out |-> <<>>,
              iters |-> 0, splits |-> 0]
  /\ UNCHANGED <<flag, pool, added, gen>>

NextConstruct ==
  /\ last.op = "init"
  /\ \E xmin \in InputCoords, ymin \in InputCoords, xmax \in InputCoords, ymax \in InputCoords :
       Construct(Region(xmin, ymin, xmax, ymax))

InitConstruct == InitWith(Canonical(WideRegion(Region(0, 0, 7, 7))), {})

SpecConstruct == InitConstruct /\ [][NextConstruct]_vars

(***************************************************************************)
(* Trees over several canonical regions around (0,0): of side 0, 1, 3, 8   *)
(* and 12, and [0,8).  Only add is called, with circles on or next to      *)
(* (0,0); five of them are the same point.                                 *)
(***************************************************************************)
InputRegions ==
  {Region(0, 0, 0, 0), Region(0, 0, 1, 1), Region(-1, -1, 2, 2),
   Region(0, 0, 7, 7), Region(-3, -3, 3, 3), Region(-3, -3, 5, 5)}

InitRegions == \E r \in InputRegions : InitOver(r, PointPool)

NextGrow == \E c \in pool : Add(c)

SpecRegions == InitRegions /\ [][NextGrow]_vars

(***************************************************************************)
(* Observations used by the properties.                                    *)
(***************************************************************************)
\* how often each element occurs in a sequence
SeqBag(s) == [c \in Range(s) |-> CountIn(s, c)]

\* the stored circles colliding with q, by a scan of every node's list
BruteForce(ns, q) ==
  [c \in {d \in StoredIds(ns) : collision(Geom(d), Geom(q))} |-> Occurrences(ns, c)]

\* stored circles equal (as lists) to the circle c
EqStored(ns, fl, c) == {d \in StoredIds(ns) : CircleEq(fl, d, c)}

EqCount(ns, fl, c) ==
  LET RECURSIVE total(_)
      total(D) == IF D = {} THEN 0
                  ELSE LET d == CHOOSE e \in D : TRUE
                       IN  Occurrences(ns, d) + total(D \ {d})
  IN  total(EqStored(ns, fl, c))

\* circles equal to c among those collide(c) yields
CollideEqCount(ns, fl, c) ==
  LET out == QuadTree_collide(ns, Geom(c))
  IN  Cardinality({i \in DOMAIN out : CircleEq(fl, out[i], c)})

\* levels of the tree: 1 for a root alone
Levels(ns) ==
  IF ~HasRoot(ns) THEN 0
  ELSE 1 + (CHOOSE n \in 0..Cardinality(DOMAIN ns) :
              /\ \E p \in DOMAIN ns : Len(p) = n
              /\ \A p \in DOMAIN ns : Len(p) <= n)

\* the circle's bounding box lies in the region, closed on min and open on max
Inside(r, circle) ==
  /\ circle.x - circle.r >= r.x_min
  /\ circle.x + circle.r < r.x_max
  /\ circle.y - circle.r >= r.y_min
  /\ circle.y + circle.r < r.y_max

(***************************************************************************)
(* Properties.                                                             *)
(***************************************************************************)

\* C1: whenever collide(Q) has run, what it yielded is, as a multiset, exactly
\* the stored circles for which the collision strategy holds against Q.
\* Fails: circle 5 = (-1,1) r 2 is accepted by add because it intersects the
\* region, and Q = (-4,1) r 1 touches it left of the region; collide prunes the
\* root with intersectsCircle(root.region, Q) and yields nothing.
C1_CollideIsBruteForce ==
  last.op = "collide" => SeqBag(last.out) = BruteForce(nodes, last.arg)

\* C2: a remove of a circle that equals no stored circle returns False and
\* leaves the nodes and their lists as they were.
\* Fails: on a leaf the loop calls node.quadrants(), which reads
\* self.children[NE].region of None.
C2_RemoveAbsent ==
  [][(last'.op = "remove" /\ EqStored(nodes, flag, last'.arg) = {})
       => (last'.ret = "False" /\ nodes' = nodes)]_vars

\* C3: every remove terminates, after at most as many loop iterations as the
\* tree has levels.
\* Fails: at a node with children where the circle intersects zero or several
\* quadrants and the list holds no match, the loop body changes nothing and the
\* loop never ends.
C3_RemoveTerminates ==
  last.op = "remove" => (last.ret # "running" /\ last.iters <= Levels(nodes))

\* C4: remove never ends with a thrown fault.
\* Fails: AttributeError on every node without children that the walk reaches.
C4_RemoveNeverThrows ==
  last.op = "remove" => last.ret # "AttributeError"

\* C5: when a circle has been added twice (two lists of equal content), each
\* remove of it while an occurrence is stored returns True, deletes exactly
\* one occurrence and nothing else, and collide of it then yields one
\* occurrence fewer.
\* Fails through the fault of C4: both occurrences rest in a leaf.
C5_RemoveOneOfTwo ==
  [][(/\ last'.op = "remove"
      /\ Cardinality({d \in added : Geom(d) = Geom(last'.arg)}) >= 2
      /\ EqCount(nodes, flag, last'.arg) >= 1)
       => (/\ last'.ret = "True"
           /\ EqCount(nodes', flag', last'.arg) = EqCount(nodes, flag, last'.arg) - 1
           /\ CollideEqCount(nodes', flag', last'.arg) = EqCount(nodes, flag, last'.arg) - 1
           /\ StoredCount(nodes') = StoredCount(nodes) - 1)]_vars

\* C6: an add of a circle that does not intersect the canonical region returns
\* False and stores nothing, and an add that returns True has stored its
\* circle.
\* Fails: the add that creates the root discards the result of root.add and
\* returns True.
C6_AddRejected ==
  last.op = "add" =>
    /\ ~intersectsCircle(region, Geom(last.arg))
         => (last.ret = "False" /\ last.arg \notin StoredIds(nodes))
    /\ last.ret = "True" => last.arg \in StoredIds(nodes)

\* C7: right after an add of a circle that lies within the canonical region,
\* collide of that circle yields it, whatever the tree held before and however
\* many subdivisions the add caused.
C7_AddThenCollide ==
  (last.op = "add" /\ Inside(region, Geom(last.arg)))
    => last.arg \in Range(QuadTree_collide(nodes, Geom(last.arg)))

\* an add of a circle within the region that caused two subdivisions and left
\* the circle two levels below the root
C7_Witness ==
  /\ last.op = "add"
  /\ Inside(region, Geom(last.arg))
  /\ last.splits >= 2
  /\ \E p \in DOMAIN nodes : Len(p) = 2 /\ last.arg \in Range(nodes[p].circles)
  /\ last.arg \in Range(QuadTree_collide(nodes, Geom(last.arg)))

\* the tree built from the empty tree by adding the circles of A by rising number
EmptyHeap == [nodes |-> <<>>, flag |-> [id \in AllIds |-> FALSE]]

RECURSIVE AddAll(_, _)
AddAll(S, A) ==
  IF A = {} THEN S
  ELSE LET c == CHOOSE d \in A : \A e \in A : d <= e
       IN  AddAll(QuadTree_add(S, c).S, A \ {c})

\* C8: with adds only, in whatever order the circles were added, collide(Q)
\* yields the same set of circles as on the tree built by adding the same
\* circles by rising number, for every query circle Q -- so any two orders
\* agree.  The circles include 5, which only partly overlaps the region, and 7,
\* which add rejects.
C8_OrderIndependent ==
  LET rising == AddAll(EmptyHeap, added).nodes
  IN  \A q \in pool \cup QueryOnly :
        Range(QuadTree_collide(nodes, Geom(q))) = Range(QuadTree_collide(rising, Geom(q)))

\* six circles stored, the partly overlapping one among them, after
\* subdivision, in an order that left the lists different from those of the
\* rising order
C8_Witness ==
  /\ StoredCount(nodes) = 6
  /\ 5 \in StoredIds(nodes)
  /\ 7 \in added
  /\ HasChildren(nodes, <<>>)
  /\ nodes # AddAll(EmptyHeap, added).nodes

\* the quadrants of region r that the circle intersects, as quadrants() finds them
QuadsOf(r, circle) ==
  LET hit(q) == IF intersectsCircle(childRegion(r, q), circle) THEN <<q>> ELSE <<>>
  IN  hit(NE) \o hit(NW) \o hit(SW) \o hit(SE)

\* exactly five circles of radius 2 at distinct centres have been added to the
\* empty tree over [0,128) x [0,128), all intersecting only quadrant q of the root
FiveIn(q) ==
  /\ region = Region(0, 0, 128, 128)
  /\ Cardinality(added) = 5
  /\ \A c \in added : Geom(c).r = 2 /\ QuadsOf(region, Geom(c)) = <<q>>
  /\ \A c, d \in added : c # d => Geom(c) # Geom(d)

Quadrants == {NE, NW, SW, SE}

Subdivided == {p \in DOMAIN nodes : HasChildren(nodes, p)}

AllYielded == SeqBag(QuadTree_collide(nodes, Geom(22))) = [c \in added |-> 1]

\* C9 as stated: after those five adds the root is the only node with children
\* (one subdivision), and a covering query yields all five.
\* Fails: subdivide() hands all five circles to the one child, whose list then
\* exceeds the threshold too, so the child subdivides as well.
C9_ExactlyOneSubdivision ==
  \A q \in Quadrants : FiveIn(q) => (Subdivided = {<<>>} /\ AllYielded)

\* C9 amended: after those five adds the root and its child for that quadrant
\* both have children, every node with children is the root or lies in that
\* child's subtree, and a covering query yields each of the five once.
C9_RootAndChildSubdivide ==
  \A q \in Quadrants :
    FiveIn(q) =>
      /\ {<<>>, <<q>>} \subseteq Subdivided
      /\ \A p \in Subdivided : p = <<>> \/ p[1] = q
      /\ AllYielded

\* the fifth such add has just returned, having caused two or more subdivisions
C9_Witness ==
  /\ \E q \in Quadrants : FiveIn(q)
  /\ last.op = "add"
  /\ last.splits >= 2
  /\ AllYielded

\* C10: completelyContains(region, circle) is true exactly when the circle's
\* bounding box lies in the region, closed on min and open on max.
\* Fails: the first test compares x - r with region.x_max, not region.x_min, so
\* every circle with x - r < x_max is reported as not contained.
C10_ContainsClosedOpen ==
  last.op = "completelyContains"
    => (last.ret = "True" <=> Inside(region, last.arg))

\* largest exponent of the powers of two a bound is compared with
MaxExp == 53

\* zero or a signed power of two
IsSigned2k(n) == n.sg = 0 \/ \E k \in 0..MaxExp : [n EXCEPT !.sg = 1] = WPow2(k)

\* C12: for every input region with integer bounds the canonical region has
\* x_min = y_min and x_max = y_max, each bound is zero or a signed power of
\* two, and it encloses the input region.
\* Fails: math.log2 returns a double, and for a bound next to a power of two
\* from 2^49 on the double is the whole exponent, so larger2k(2^49 + 1) is
\* 2^49 and smaller2k(2^49 - 1) is 2^49: the canonical region does not
\* enclose the input.
C12_CanonicalSquare2kEncloses ==
  last.op = "construct" =>
    /\ region.x_min = region.y_min
    /\ region.x_max = region.y_max
    /\ IsSigned2k(region.x_min)
    /\ IsSigned2k(region.x_max)
    /\ WLe(region.x_min, last.arg.x_min)
    /\ WLe(region.y_min, last.arg.y_min)
    /\ WLe(last.arg.x_max, region.x_max)
    /\ WLe(last.arg.y_max, region.y_max)

\* the region has no extent in x or in y
Malformed(r) == WLe(r.x_max, r.x_min) \/ WLe(r.y_max, r.y_min)

\* C15: constructing a tree from a malformed region (x_max <= x_min or
\* y_max <= y_min) ends with an error, and no tree has a canonical region of
\* zero or negative side.
C15_MalformedRejected ==
  /\ (last.op = "construct" /\ Malformed(last.arg)) => last.ret # "None"
  /\ WLt(region.x_min, region.x_max)
  /\ WLt(region.y_min, region.y_max)

\* width plus height of a region
Extent(r) == (r.x_max - r.x_min) + (r.y_max - r.y_min)

\* two half-open rectangles share a point
Overlap(a, b) ==
  /\ a.x_min < b.x_max /\ b.x_min < a.x_max
  /\ a.y_min < b.y_max /\ b.y_min < a.y_max

Area(r) == (r.x_max - r.x_min) * (r.y_max - r.y_min)

\* C11: every subdivision splits the node's region exactly in half: a node of
\* side s >= 2 has four square children of side s/2 that are pairwise
\* disjoint and together cover the parent, at every depth.
C11_HalvesExactly ==
  \A p \in Subdivided :
    LET r == nodes[p].region
        s == r.x_max - r.x_min
        kid(q) == nodes[Append(p, q)].region
    IN  s >= 2 =>
          /\ \A q \in Quadrants :
                /\ 2 * (kid(q).x_max - kid(q).x_min) = s
                /\ 2 * (kid(q).y_max - kid(q).y_min) = s
                /\ kid(q).x_min >= r.x_min /\ kid(q).x_max <= r.x_max
                /\ kid(q).y_min >= r.y_min /\ kid(q).y_max <= r.y_max
          /\ \A q1, q2 \in Quadrants : q1 # q2 => ~Overlap(kid(q1), kid(q2))
          /\ Area(kid(NE)) + Area(kid(NW)) + Area(kid(SW)) + Area(kid(SE)) = Area(r)

\* C13: every add ends, after finitely many subdivisions.  A circle is handed
\* down only into a child whose region is strictly smaller than the node's
\* (so no chain of descents or of cascaded subdivisions is endless), every
\* add returns, and the subdivisions of one add are at most the extent of
\* the tree's region plus one.
C13_AddTerminates ==
  /\ \A p \in DOMAIN nodes : \A c \in pool :
        LET r == nodes[p].region
            quads == QuadsOf(r, Geom(c))
        IN  Len(quads) = 1 => Extent(childRegion(r, quads[1])) < Extent(r)
  /\ last.op = "add" =>
        /\ last.ret \in {"True", "False"}
        /\ last.splits <= Extent(region) + 1

\* five circles of one point of zero radius rest in a subdivided node of side
\* at most 1, put there by an add that cascaded
C13_Witness ==
  /\ last.op = "add"
  /\ last.splits >= 2
  /\ \E p \in Subdivided :
        /\ nodes[p].region.x_max - nodes[p].region.x_min <= 1
        /\ Len(nodes[p].circles) >= 5
        /\ \A i \in DOMAIN nodes[p].circles : Geom(nodes[p].circles[i]) = Circle(0, 0, 0)

\* C14: a circle that intersects two or more quadrants of the root is, once
\* the root has children, in the root's own list exactly once and in no other
\* node's list, whatever adds and subdivisions follow.
C14_StraddlerStaysAtRoot ==
  \A c \in added :
    (HasChildren(nodes, <<>>) /\ Len(QuadsOf(region, Geom(c))) >= 2) =>
      /\ CountIn(nodes[<<>>].circles, c) = 1
      /\ \A p \in DOMAIN nodes \ {<<>>} : c \notin Range(nodes[p].circles)

\* circle 4 lies on the root's origin; a later add of another circle has
\* subdivided the child SW
C14_Witness ==
  /\ 4 \in added
  /\ Len(QuadsOf(region, Geom(4))) >= 2
  /\ HasChildren(nodes, <<SW>>)
  /\ last.op = "add" /\ last.arg # 4 /\ last.splits >= 1
  /\ 4 \in Range(nodes[<<>>].circles)

\* the quadrants a node has children in
Kids(p) == {q \in Quadrants : Append(p, q) \in DOMAIN nodes}

Leaves == DOMAIN nodes \ Subdivided

\* C16: in every state reached through add and remove each node has no
\* children or exactly four, and a node without children holds at most 4
\* circles.
C16_FourOrNoneLeafAtMost4 ==
  \A p \in DOMAIN nodes :
    /\ Kids(p) = {} \/ Kids(p) = Quadrants
    /\ \A i \in DOMAIN p : p[i] \in Quadrants /\ SubSeq(p, 1, i - 1) \in DOMAIN nodes
    /\ Kids(p) = {} => Len(nodes[p].circles) <= Threshold

\* a remove has taken a circle out of the subdivided root and a leaf below
\* holds four circles
C16_Witness ==
  /\ last.op = "remove" /\ last.ret = "True"
  /\ \E p \in Leaves : p # <<>> /\ Len(nodes[p].circles) = Threshold

\* C17: a circle in the list of a node that has children intersects none or
\* at least two of the node's four child regions, never exactly one.
C17_InnerListNotSingleQuadrant ==
  \A p \in Subdivided :
    \A i \in DOMAIN nodes[p].circles :
      Len(quadrants(nodes, p, Geom(nodes[p].circles[i]))) # 1

\* the root and a subdivided child both hold circles of several quadrants
C17_Witness ==
  /\ nodes # <<>>
  /\ \E p \in Subdivided :
        /\ p # <<>>
        /\ nodes[p].circles # <<>>
        /\ nodes[<<>>].circles # <<>>

\* the nodes on the way from the root to p, p included
Ancestors(p) == {SubSeq(p, 1, n) : n \in 0..Len(p)}

\* C18: every stored circle intersects, by intersectsCircle, the region of the
\* node that holds it and the region of every ancestor of that node.
C18_StoredIntersectsPath ==
  \A p \in DOMAIN nodes :
    \A i \in DOMAIN nodes[p].circles :
      \A a \in Ancestors(p) : intersectsCircle(nodes[a].region, Geom(nodes[p].circles[i]))

\* a node two levels below the root holds a circle, and circle 5, which lies
\* partly outside the region, is stored
C18_Witness ==
  /\ 5 \in StoredIds(nodes)
  /\ \E p \in DOMAIN nodes : Len(p) = 2 /\ nodes[p].circles # <<>>

\* stored circles of the geometry g, over all lists
StoredOfGeom(ns, g) ==
  LET RECURSIVE total(_)
      total(P) == IF P = {} THEN 0
                  ELSE LET p == CHOOSE q \in P : TRUE
                       IN  Cardinality({i \in DOMAIN ns[p].circles : Geom(ns[p].circles[i]) = g})
                             + total(P \ {p})
  IN  total(DOMAIN ns)

\* what a call that has just returned r for the circle c owes the geometry g
Owed(op, c, r, g) ==
  IF r = "True" /\ op = "add" /\ Geom(c) = g THEN 1
  ELSE IF r = "True" /\ op = "remove" /\ Geom(c) = g THEN -1
  ELSE 0

\* C19: circles are conserved.  The stored multiset is the adds that returned
\* true less the removes that returned true: every step changes the number of
\* stored circles of each geometry by exactly one up for an add that returns
\* true, one down for a remove that returns true, and not at all otherwise,
\* subdivisions included.
C19_Conserved ==
  [][\A g \in {Geom(c) : c \in pool} :
       StoredOfGeom(nodes', g) =
         StoredOfGeom(nodes, g) + Owed(last'.op, last'.arg, last'.ret, g)]_vars

\* p is n or an ancestor of n
IsPrefix(p, n) == Len(p) <= Len(n) /\ SubSeq(n, 1, Len(p)) = p

\* C20: after an add that subdivided, cascades included, every circle that was
\* redistributed has the flag of the place it ended in: true in the list of a
\* subdivided node, false in a leaf.  The redistributed circles are those at
\* or below a node that the add subdivided.
C20_FlagMatchesPlace ==
  [][last'.op = "add" =>
       \A p \in {s \in DOMAIN nodes' : HasChildren(nodes', s) /\ ~HasChildren(nodes, s)} :
         \A n \in DOMAIN nodes' :
           IsPrefix(p, n) =>
             \A i \in DOMAIN nodes'[n].circles :
               flag'[nodes'[n].circles[i]] = HasChildren(nodes', n)]_vars

====
